---- MODULE Spec2Model ----
(***************************************************************************)
(* Capture / segmentation state machine of QueueCommands.tsx (the first    *)
(* QueueCommands component, lines 26-415): the record button, the          *)
(* getUserMedia wait, the MediaRecorder units with their start / stop /    *)
(* dataavailable events, the VAD tick loop, the manual flush, and the path  *)
(* of a dispatched segment: FileReader, analyzeAudioFromBase64, the result  *)
(* list and the live reveal.                                               *)
(*                                                                         *)
(* Scheduling: one event thread.  Every handler runs to completion; the    *)
(* only suspension points are `await getUserMedia` in startRecording and   *)
(* `await sendAudioForAnalysis()` in onstop.  The latter resumes in a      *)
(* microtask, so no other task runs between the two halves of onstop.      *)
(*                                                                         *)
(* MediaRecorder: start() sets state "recording" at once and queues the    *)
(* start event; stop() sets state "inactive" at once and queues one task   *)
(* that fires the last dataavailable and then stop; stop() on an inactive  *)
(* recorder throws.  Events of one recorder arrive in order; events of     *)
(* different recorders and the getUserMedia resolution are unordered.      *)
(* A recorder whose stream's tracks all end stops by itself.               *)
(*                                                                         *)
(* Units: time in ms, RMS in 1e-7 (0.002 = 20000).                         *)
(*                                                                         *)
(* LLMHelper.analyzeAudioFromBase64 (LLMHelper.ts, lines 130-313) is        *)
(* modelled by its steps between awaits: the converter, the simplified      *)
(* converter, whisper-cli and curl are external commands whose outcomes     *)
(* the environment chooses.  Its two text functions (transcript selection   *)
(* and escaping) and the cut of the progressive reveal are modelled on      *)
(* strings over small alphabets.                                           *)
(***************************************************************************)
EXTENDS Integers, Sequences, FiniteSets, TLC

\* ---- tunables of the program (QueueCommands.tsx:69-72, 241) ----
SILENCE_DURATION_MS == 1500
CALIBRATION_MS == 800
MIN_THRESHOLD_RMS == 20000
NOISE_MULTIPLIER == 2
DEFAULT_NOISE == 10000

\* ---- bounds of the model ----
MaxSessions == 2
MaxRecorders == 3
MaxChunks == 2
MaxTime == 6000
MaxVadTime == 3500
CoarseDelta == 1500
ShortDelta == 250
LongDelta == 750
MaxCalTime == 1500

\* frame gaps and RMS readings (0.0001, 0.01) the environment offers
CoarseDeltas == {CoarseDelta}
FineDeltas == {ShortDelta, LongDelta}
CoarseRms == {1000, 100000}
FineRms == {1000, 100000}
\* readings for calibration: 0.0001, 0.0005, 0.01
CalRms == {1000, 5000, 100000}

NoRec == 0
NoStream == 0
None == -1
NoReveal == 0
MicError == 0

VARIABLES
    isRecording,      \* React state isRecording (the record button's toggle)
    pendingStarts,    \* startRecording calls suspended at await getUserMedia
    sessionActive,    \* sessionActiveRef.current
    streamRef,        \* streamRef.current: a stream id, or NoStream
    streams,          \* streams[s]: do the tracks of stream s still run
    mediaRecorderRef, \* mediaRecorderRef.current: a recorder id, or NoRec
    recs,             \* every MediaRecorder created so far
    chunks,           \* chunks.current: the blobs accumulated (chunk ids)
    nextChunk,        \* id of the next blob a recorder delivers
    segments,         \* the blobs handed to the pipeline, one sequence per dispatch
    stopInFlight,     \* stopInFlightRef.current
    isSpeaking,       \* isSpeakingRef.current
    silenceStart,     \* silenceStartRef.current: a time, or None
    noiseFloor,       \* noiseFloorRef.current: an RMS, or None
    loops,            \* every tick loop started so far
    meterRaf,         \* meterRafRef.current: the loop whose frame request is stored, or 0
    calls,            \* calls[i]: where the pipeline call for segments[i] stands
    audioResults,     \* React state audioResults: segment ids, MicError for a start error
    transcript,       \* React state transcript: segment ids of the answers revealed in full
    live,             \* React state liveTranscription: the segment being revealed, or NoReveal
    now,              \* performance.now()
    endedAt,          \* history: segments dispatched when the session was stopped, None once restarted
    run,              \* the analyzeAudioFromBase64 call under way
    sel,              \* transcript selection: whisper's stdout, the sidecar file, the result
    esc,              \* transcript escaping: the input, the text so far, the replace calls done
    rv,               \* liveTranscription of one reveal: the text, currentIndex, displayedText
    lastRms,          \* history: the reading of the tick just taken, None after other handlers
    lastAbove,        \* history: time of the last tick with rms > threshold, or None
    silentTotal,      \* history: sub-threshold time seen since isSpeaking became true (saturating)
    flushOpen,        \* history: a manual flush was accepted and its replacement's onstart has not run
    ev                \* history: what the last handler did

vars == <<isRecording, pendingStarts, sessionActive, streamRef, streams,
          mediaRecorderRef, recs, chunks, nextChunk, segments, stopInFlight,
          isSpeaking, silenceStart, noiseFloor, loops, meterRaf, now,
          lastAbove, silentTotal, flushOpen, ev,
          calls, audioResults, transcript, live, endedAt, lastRms,
          run, sel, esc, rv>>

uiVars == <<isRecording, pendingStarts>>
vadVars == <<isSpeaking, silenceStart, noiseFloor>>
histVars == <<lastAbove, silentTotal>>

audioVars == <<chunks, nextChunk, segments>>

pipeVars == <<calls, audioResults, transcript, live>>

\* the renderer: everything QueueCommands owns but the reveal text
frontVars == <<isRecording, pendingStarts, sessionActive, streamRef, streams,
               mediaRecorderRef, recs, chunks, nextChunk, segments, stopInFlight,
               isSpeaking, silenceStart, noiseFloor, loops, meterRaf, now,
               lastAbove, silentTotal, flushOpen, ev,
               calls, audioResults, transcript, live, endedAt, lastRms>>

llmVars == <<run, sel, esc>>

revealVars == <<rv>>

NoRun ==
    [pc |-> "idle", ext |-> "none", processPath |-> "none", files |-> {},
     created |-> {}, tried |-> <<>>, attempted |-> {}, last |-> "none",
     result |-> "none", source |-> "none"]

NoSel == [pc |-> "idle", stdout |-> <<>>, hasFile |-> FALSE, sidecar |-> <<>>,
          transcription |-> <<>>]

NoEsc == [pc |-> "idle", input |-> <<>>, text |-> <<>>, step |-> 0]

NoRv == [pc |-> "idle", text |-> <<>>, currentIndex |-> 0, displayed |-> <<>>,
         messageId |-> 0, started |-> 0, chains |-> {}, timerRef |-> 0,
         entries |-> <<>>, noops |-> 0, superseded |-> {}, cleared |-> {}]

\* ---- MediaRecorder ----
NewRec(s) ==
    [stream |-> s, state |-> "recording", startEv |-> TRUE,
     stopEv |-> "none", stopCalls |-> 0]

RecStopThrows(rs, r) == rs[r].state = "inactive"

RecStop(rs, r) ==
    IF RecStopThrows(rs, r)
    THEN [rs EXCEPT ![r].stopCalls = @ + 1]
    ELSE [rs EXCEPT ![r].state = "inactive", ![r].stopEv = "queued",
                    ![r].stopCalls = @ + 1]

TracksEnded(rs, s) ==
    [r \in DOMAIN rs |->
        IF rs[r].stream = s /\ rs[r].state = "recording"
        THEN [rs[r] EXCEPT !.state = "inactive", !.stopEv = "queued"]
        ELSE rs[r]]

Recording == {r \in DOMAIN recs : recs[r].state = "recording"}

\* no onstop handler is suspended at its await
Idle == \A r \in DOMAIN recs : recs[r].stopEv # "running"

Init ==
    /\ isRecording = FALSE
    /\ pendingStarts = 0
    /\ sessionActive = FALSE
    /\ streamRef = NoStream
    /\ streams = <<>>
    /\ mediaRecorderRef = NoRec
    /\ recs = <<>>
    /\ chunks = <<>>
    /\ nextChunk = 1
    /\ segments = <<>>
    /\ stopInFlight = FALSE
    /\ isSpeaking = FALSE
    /\ silenceStart = None
    /\ noiseFloor = None
    /\ loops = <<>>
    /\ meterRaf = 0
    /\ now = 0
    /\ lastAbove = None
    /\ silentTotal = 0
    /\ flushOpen = FALSE
    /\ ev = "init"
    /\ calls = <<>>
    /\ audioResults = <<>>
    /\ transcript = <<>>
    /\ live = NoReveal
    /\ lastRms = None
    /\ endedAt = None
    /\ run = NoRun
    /\ sel = NoSel
    /\ esc = NoEsc
    /\ rv = NoRv

\* ---- handleRecordClick, not recording: startRecording up to its await ----
StartClick ==
    /\ Idle
    /\ ~isRecording
    /\ Len(streams) + pendingStarts < MaxSessions
    /\ isRecording' = TRUE
    /\ pendingStarts' = pendingStarts + 1
    /\ audioResults' = <<>>
    /\ transcript' = <<>>
    /\ live' = NoReveal
    /\ ev' = "start:requested"
    /\ lastRms' = None
    /\ endedAt' = None
    /\ UNCHANGED <<llmVars, revealVars>>
    /\ UNCHANGED <<sessionActive, streamRef, streams, mediaRecorderRef, recs,
                   stopInFlight, loops, meterRaf, now, flushOpen, calls>>
    /\ UNCHANGED <<vadVars, histVars, audioVars>>

\* startRecording marking the session active before the setup throws
StartResumeActiveOnSetupError(outcome) ==
    /\ Idle
    /\ pendingStarts > 0
    /\ pendingStarts' = pendingStarts - 1
    /\ IF outcome = "denied"
       THEN /\ ev' = "start:denied"
            /\ audioResults' = Append(audioResults, MicError)
            /\ UNCHANGED <<sessionActive, streamRef, streams, mediaRecorderRef,
                           recs, stopInFlight, loops, meterRaf, noiseFloor, chunks,
                           flushOpen>>
       ELSE /\ Len(recs) < MaxRecorders
            /\ flushOpen' = FALSE
            /\ streams' = Append(streams, TRUE)
            /\ streamRef' = Len(streams) + 1
            /\ stopInFlight' = FALSE
            /\ chunks' = <<>>
            /\ IF outcome = "setup_error"
               THEN /\ ev' = "start:setup_error"
                    /\ audioResults' = Append(audioResults, MicError)
                    /\ sessionActive' = TRUE
                    /\ UNCHANGED <<mediaRecorderRef, recs, loops, meterRaf,
                                   noiseFloor>>
               ELSE /\ recs' = Append(recs, NewRec(Len(streams) + 1))
                    /\ mediaRecorderRef' = Len(recs) + 1
                    /\ noiseFloor' = None
                    /\ loops' = Append(loops, [startTs |-> now,
                                               stream |-> Len(streams) + 1,
                                               running |-> TRUE])
                    /\ meterRaf' = Len(loops) + 1
                    /\ sessionActive' = TRUE
                    /\ ev' = "start:started"
                    /\ UNCHANGED audioResults
    /\ lastRms' = None
    /\ UNCHANGED endedAt
    /\ UNCHANGED <<llmVars, revealVars>>
    /\ UNCHANGED <<isRecording, isSpeaking, silenceStart, nextChunk, segments, now,
                   calls, transcript, live>>
    /\ UNCHANGED histVars

\* ---- startRecording after getUserMedia settles ----
StartResume(outcome) ==
    /\ Idle
    /\ pendingStarts > 0
    /\ pendingStarts' = pendingStarts - 1
    /\ IF outcome = "denied"
       THEN /\ ev' = "start:denied"
            /\ audioResults' = Append(audioResults, MicError)
            /\ UNCHANGED <<sessionActive, streamRef, streams, mediaRecorderRef,
                           recs, stopInFlight, loops, meterRaf, noiseFloor, chunks,
                           flushOpen>>
       ELSE /\ Len(recs) < MaxRecorders
            /\ flushOpen' = FALSE
            /\ streams' = Append(streams, TRUE)
            /\ streamRef' = Len(streams) + 1
            /\ stopInFlight' = FALSE
            /\ chunks' = <<>>
            /\ IF outcome = "setup_error"
               THEN /\ ev' = "start:setup_error"
                    /\ audioResults' = Append(audioResults, MicError)
                    /\ UNCHANGED <<sessionActive, mediaRecorderRef, recs, loops,
                                   meterRaf, noiseFloor>>
               ELSE /\ recs' = Append(recs, NewRec(Len(streams) + 1))
                    /\ mediaRecorderRef' = Len(recs) + 1
                    /\ noiseFloor' = None
                    /\ loops' = Append(loops, [startTs |-> now,
                                               stream |-> Len(streams) + 1,
                                               running |-> TRUE])
                    /\ meterRaf' = Len(loops) + 1
                    /\ sessionActive' = TRUE
                    /\ ev' = "start:started"
                    /\ UNCHANGED audioResults
    /\ lastRms' = None
    /\ UNCHANGED endedAt
    /\ UNCHANGED <<llmVars, revealVars>>
    /\ UNCHANGED <<isRecording, isSpeaking, silenceStart, nextChunk, segments, now,
                   calls, transcript, live>>
    /\ UNCHANGED histVars

\* stopRecording without sessionActiveRef.current = false
StopRecordingKeepsSession ==
    /\ sessionActive' = sessionActive
    /\ loops' = IF meterRaf # 0
                THEN [loops EXCEPT ![meterRaf].running = FALSE]
                ELSE loops
    /\ meterRaf' = 0
    /\ LET rec == mediaRecorderRef
           stopped == IF rec # NoRec /\ recs[rec].state # "inactive"
                      THEN RecStop(recs, rec)
                      ELSE recs
       IN  recs' = IF streamRef # NoStream
                   THEN TracksEnded(stopped, streamRef)
                   ELSE stopped
    /\ streams' = IF streamRef # NoStream
                  THEN [streams EXCEPT ![streamRef] = FALSE]
                  ELSE streams
    /\ streamRef' = NoStream
    /\ mediaRecorderRef' = NoRec
    /\ stopInFlight' = FALSE
    /\ isSpeaking' = FALSE
    /\ silenceStart' = None

\* stopRecording stopping the recorder whatever its state and keeping it current
StopRecordingKeepsRecorder ==
    /\ sessionActive' = FALSE
    /\ loops' = IF meterRaf # 0
                THEN [loops EXCEPT ![meterRaf].running = FALSE]
                ELSE loops
    /\ meterRaf' = 0
    /\ LET rec == mediaRecorderRef
           stopped == IF rec # NoRec
                      THEN RecStop(recs, rec)
                      ELSE recs
       IN  recs' = IF streamRef # NoStream
                   THEN TracksEnded(stopped, streamRef)
                   ELSE stopped
    /\ streams' = IF streamRef # NoStream
                  THEN [streams EXCEPT ![streamRef] = FALSE]
                  ELSE streams
    /\ streamRef' = NoStream
    /\ mediaRecorderRef' = mediaRecorderRef
    /\ stopInFlight' = FALSE
    /\ isSpeaking' = FALSE
    /\ silenceStart' = None

\* ---- handleRecordClick, recording: stopRecording ----
StopRecording ==
    /\ sessionActive' = FALSE
    /\ loops' = IF meterRaf # 0
                THEN [loops EXCEPT ![meterRaf].running = FALSE]
                ELSE loops
    /\ meterRaf' = 0
    /\ LET rec == mediaRecorderRef
           stopped == IF rec # NoRec /\ recs[rec].state # "inactive"
                      THEN RecStop(recs, rec)
                      ELSE recs
       IN  recs' = IF streamRef # NoStream
                   THEN TracksEnded(stopped, streamRef)
                   ELSE stopped
    /\ streams' = IF streamRef # NoStream
                  THEN [streams EXCEPT ![streamRef] = FALSE]
                  ELSE streams
    /\ streamRef' = NoStream
    /\ mediaRecorderRef' = NoRec
    /\ stopInFlight' = FALSE
    /\ isSpeaking' = FALSE
    /\ silenceStart' = None

StopClick ==
    /\ Idle
    /\ isRecording
    /\ isRecording' = FALSE
    /\ StopRecording
    /\ lastAbove' = None
    /\ silentTotal' = 0
    /\ flushOpen' = FALSE
    /\ live' = NoReveal
    /\ ev' = "stop"
    /\ lastRms' = None
    /\ endedAt' = Len(segments)
    /\ UNCHANGED <<llmVars, revealVars>>
    /\ UNCHANGED <<pendingStarts, noiseFloor, now, calls, audioResults, transcript>>
    /\ UNCHANGED audioVars

\* handleManualFlush without the stopInFlight test of line 406
FlushRejectedIgnoringFlight(rec) == rec = NoRec \/ recs[rec].state # "recording"

\* the early returns of handleManualFlush
FlushRejected(rec) == rec = NoRec \/ recs[rec].state # "recording" \/ stopInFlight

\* ---- handleManualFlush ----
ManualFlush ==
    /\ Idle
    /\ LET rec == mediaRecorderRef IN
       IF FlushRejected(rec)
       THEN /\ ev' = "flush:noop"
            /\ UNCHANGED <<recs, stopInFlight, flushOpen>>
       ELSE /\ recs' = RecStop(recs, rec)
            /\ stopInFlight' = ~RecStopThrows(recs, rec)
            /\ flushOpen' = TRUE
            /\ ev' = "flush:stop"
    /\ lastRms' = None
    /\ UNCHANGED endedAt
    /\ UNCHANGED <<llmVars, revealVars>>
    /\ UNCHANGED <<sessionActive, streamRef, streams, mediaRecorderRef, loops,
                   meterRaf, now>>
    /\ UNCHANGED <<uiVars, vadVars, histVars, audioVars, pipeVars>>

\* ---- recorder.onstart ----
OnStart(r) ==
    /\ Idle
    /\ recs[r].startEv
    /\ recs' = [recs EXCEPT ![r].startEv = FALSE]
    /\ stopInFlight' = FALSE
    /\ isSpeaking' = FALSE
    /\ silenceStart' = None
    /\ lastAbove' = None
    /\ silentTotal' = 0
    /\ flushOpen' = (flushOpen /\ ~(r = mediaRecorderRef /\ recs[r].state = "recording"))
    /\ ev' = IF isSpeaking THEN "onstart:silenced" ELSE "onstart"
    /\ lastRms' = None
    /\ UNCHANGED endedAt
    /\ UNCHANGED <<llmVars, revealVars>>
    /\ UNCHANGED <<sessionActive, streamRef, streams, mediaRecorderRef, loops,
                   meterRaf, now, noiseFloor>>
    /\ UNCHANGED <<uiVars, audioVars, pipeVars>>

\* ---- recorder.ondataavailable, a timeslice blob of a running recorder ----
DataAvailable(r) ==
    /\ Idle
    /\ recs[r].state = "recording"
    /\ ~recs[r].startEv
    /\ nextChunk <= MaxChunks
    /\ chunks' = Append(chunks, nextChunk)
    /\ nextChunk' = nextChunk + 1
    /\ ev' = "data"
    /\ lastRms' = None
    /\ UNCHANGED endedAt
    /\ UNCHANGED <<llmVars, revealVars>>
    /\ UNCHANGED <<sessionActive, streamRef, streams, mediaRecorderRef, recs,
                   stopInFlight, loops, meterRaf, now, segments, flushOpen>>
    /\ UNCHANGED <<uiVars, vadVars, histVars, pipeVars>>

\* sendAudioForAnalysis resetting the chunks without handing the blob over
SendAudioDropped(ch, segs) == [chunks |-> <<>>, segments |-> segs]

\* ---- sendAudioForAnalysis: the blob handed to the pipeline, chunks reset ----
SendAudioForAnalysis(ch, segs) ==
    IF ch = <<>>
    THEN [chunks |-> ch, segments |-> segs]
    ELSE [chunks |-> <<>>, segments |-> Append(segs, ch)]

\* ---- the stop task of a recorder: its last dataavailable, then onstop up
\*      to the await (the try block) ----
OnStopTry(r, hasData) ==
    /\ Idle
    /\ recs[r].stopEv = "queued"
    /\ ~recs[r].startEv
    /\ Len(recs) < MaxRecorders
    /\ hasData => nextChunk <= MaxChunks
    /\ LET got == IF hasData THEN Append(chunks, nextChunk) ELSE chunks
           sent == IF Len(got) > 0
                   THEN SendAudioForAnalysis(got, segments)
                   ELSE [chunks |-> got, segments |-> segments]
       IN  /\ chunks' = sent.chunks
           /\ segments' = sent.segments
           /\ calls' = IF Len(sent.segments) > Len(segments)
                       THEN Append(calls, "reading") ELSE calls
           /\ live' = IF Len(got) > 0 THEN NoReveal ELSE live
           /\ ev' = IF Len(sent.segments) > Len(segments)
                    THEN "onstop:dispatched" ELSE "onstop:nothing"
    /\ nextChunk' = IF hasData THEN nextChunk + 1 ELSE nextChunk
    /\ recs' = [recs EXCEPT ![r].stopEv = "running"]
    /\ lastRms' = None
    /\ UNCHANGED endedAt
    /\ UNCHANGED <<llmVars, revealVars>>
    /\ UNCHANGED <<sessionActive, streamRef, streams, mediaRecorderRef,
                   stopInFlight, loops, meterRaf, now, flushOpen, audioResults,
                   transcript>>
    /\ UNCHANGED <<uiVars, vadVars, histVars>>

\* sendAudioForAnalysis throwing and the handler ending there, with no
\* finally block
OnStopTryThrowsSkipsFinally(r, hasData) ==
    /\ Idle
    /\ recs[r].stopEv = "queued"
    /\ ~recs[r].startEv
    /\ Len(recs) < MaxRecorders
    /\ hasData => nextChunk <= MaxChunks
    /\ LET got == IF hasData THEN Append(chunks, nextChunk) ELSE chunks
       IN  /\ Len(got) > 0
           /\ chunks' = got
    /\ live' = NoReveal
    /\ ev' = "onstop:send_failed"
    /\ nextChunk' = IF hasData THEN nextChunk + 1 ELSE nextChunk
    /\ recs' = [recs EXCEPT ![r].stopEv = "failed"]
    /\ lastRms' = None
    /\ UNCHANGED endedAt
    /\ UNCHANGED <<llmVars, revealVars>>
    /\ UNCHANGED <<sessionActive, streamRef, streams, mediaRecorderRef,
                   stopInFlight, loops, meterRaf, now, flushOpen, audioResults,
                   transcript, segments, calls>>
    /\ UNCHANGED <<uiVars, vadVars, histVars>>

\* ---- the stop task of a recorder whose sendAudioForAnalysis throws (in
\*      new Blob, new FileReader or readAsDataURL, lines 196-217): the live
\*      reveal is cleared, nothing is dispatched, chunks are not reset, and
\*      the finally block is next ----
OnStopTryThrows(r, hasData) ==
    /\ Idle
    /\ recs[r].stopEv = "queued"
    /\ ~recs[r].startEv
    /\ Len(recs) < MaxRecorders
    /\ hasData => nextChunk <= MaxChunks
    /\ LET got == IF hasData THEN Append(chunks, nextChunk) ELSE chunks
       IN  /\ Len(got) > 0
           /\ chunks' = got
    /\ live' = NoReveal
    /\ ev' = "onstop:send_failed"
    /\ nextChunk' = IF hasData THEN nextChunk + 1 ELSE nextChunk
    /\ recs' = [recs EXCEPT ![r].stopEv = "running"]
    /\ lastRms' = None
    /\ UNCHANGED endedAt
    /\ UNCHANGED <<llmVars, revealVars>>
    /\ UNCHANGED <<sessionActive, streamRef, streams, mediaRecorderRef,
                   stopInFlight, loops, meterRaf, now, flushOpen, audioResults,
                   transcript, segments, calls>>
    /\ UNCHANGED <<uiVars, vadVars, histVars>>

\* the finally block creating the replacement without start(100)
OnStopFinallyNoStart(r, fails) ==
    /\ recs[r].stopEv = "running"
    /\ IF sessionActive /\ streamRef # NoStream
       THEN /\ chunks' = <<>>
            /\ IF fails
               THEN /\ recs' = [recs EXCEPT ![r].stopEv = "failed"]
                    /\ ev' = "onstop:restart_failed"
                    /\ UNCHANGED mediaRecorderRef
               ELSE /\ recs' = Append([recs EXCEPT ![r].stopEv = "done"],
                                      [NewRec(streamRef) EXCEPT !.state = "inactive",
                                                                !.startEv = FALSE])
                    /\ mediaRecorderRef' = Len(recs) + 1
                    /\ ev' = "onstop:restarted"
       ELSE /\ ~fails
            /\ recs' = [recs EXCEPT ![r].stopEv = "done"]
            /\ mediaRecorderRef' = NoRec
            /\ ev' = "onstop:ended"
            /\ UNCHANGED chunks
    /\ lastRms' = None
    /\ UNCHANGED endedAt
    /\ UNCHANGED <<llmVars, revealVars>>
    /\ UNCHANGED <<sessionActive, streamRef, streams, stopInFlight, loops,
                   meterRaf, now, nextChunk, segments, flushOpen>>
    /\ UNCHANGED <<uiVars, vadVars, histVars, pipeVars>>

\* ---- onstop after the await (the finally block) ----
OnStopFinally(r, fails) ==
    /\ recs[r].stopEv = "running"
    /\ IF sessionActive /\ streamRef # NoStream
       THEN /\ chunks' = <<>>
            /\ IF fails
               THEN /\ recs' = [recs EXCEPT ![r].stopEv = "failed"]
                    /\ ev' = "onstop:restart_failed"
                    /\ UNCHANGED mediaRecorderRef
               ELSE /\ recs' = Append([recs EXCEPT ![r].stopEv = "done"],
                                      NewRec(streamRef))
                    /\ mediaRecorderRef' = Len(recs) + 1
                    /\ ev' = "onstop:restarted"
       ELSE /\ ~fails
            /\ recs' = [recs EXCEPT ![r].stopEv = "done"]
            /\ mediaRecorderRef' = NoRec
            /\ ev' = "onstop:ended"
            /\ UNCHANGED chunks
    /\ lastRms' = None
    /\ UNCHANGED endedAt
    /\ UNCHANGED <<llmVars, revealVars>>
    /\ UNCHANGED <<sessionActive, streamRef, streams, stopInFlight, loops,
                   meterRaf, now, nextChunk, segments, flushOpen>>
    /\ UNCHANGED <<uiVars, vadVars, histVars, pipeVars>>

\* ---- startMeterLoop.tick ----
Max(a, b) == IF a > b THEN a ELSE b

Min(a, b) == IF a < b THEN a ELSE b

\* exact: the readings are multiples of 1000 and at most three frames of a
\* session fall into its calibration window
Smooth(old, rms) == IF old = None THEN rms ELSE (old * 9 + rms) \div 10

\* the threshold without its MIN_THRESHOLD_RMS floor
ThresholdNoFloor(nf) == (IF nf = None THEN DEFAULT_NOISE ELSE nf) * NOISE_MULTIPLIER

Threshold(nf) ==
    Max(MIN_THRESHOLD_RMS, (IF nf = None THEN DEFAULT_NOISE ELSE nf) * NOISE_MULTIPLIER)

\* the comparison reading the noise floor as it was before this tick's fold
NoiseBeforeFold(before, after) == before

\* the noise floor the comparison reads: noiseFloorRef.current is read after
\* the calibration branch has written it
NoiseAtCompare(before, after) == after

\* a frame above the threshold that leaves the silence timer armed
OnSpeechKeepsTimer(ss) == ss

\* the silence timer after a frame above the threshold
OnSpeech(ss) == None

\* the silence test with > for >=
SilenceElapsedStrict(t) ==
    silenceStart # None /\ t - silenceStart > SILENCE_DURATION_MS

SilenceElapsed(t) == silenceStart # None /\ t - silenceStart >= SILENCE_DURATION_MS

\* the calibration test holding on every frame
AlwaysCalibrating(elapsed) == TRUE

\* the calibration test of line 234
Calibrating(elapsed) == elapsed < CALIBRATION_MS

\* the stop test without the stopInFlight check of line 255
TickMayStopIgnoringFlight(rec) == rec # NoRec /\ recs[rec].state = "recording"

\* the stop test of lines 255-257
TickMayStop(rec) == ~stopInFlight /\ rec # NoRec /\ recs[rec].state = "recording"

Tick(l, dt, rms) ==
    /\ Idle
    /\ loops[l].running
    /\ now + dt <= MaxTime
    /\ (rms = 0) <=> ~streams[loops[l].stream]
    /\ now' = now + dt
    /\ noiseFloor' = IF Calibrating(now' - loops[l].startTs)
                     THEN Smooth(noiseFloor, rms)
                     ELSE noiseFloor
    /\ lastRms' = rms
    /\ UNCHANGED endedAt
    /\ UNCHANGED <<llmVars, revealVars>>
    /\ meterRaf' = l
    /\ IF rms > Threshold(NoiseAtCompare(noiseFloor, noiseFloor'))
       THEN /\ isSpeaking' = TRUE
            /\ silenceStart' = OnSpeech(silenceStart)
            /\ lastAbove' = now'
            /\ ev' = "tick:speech"
            /\ UNCHANGED <<recs, stopInFlight, silentTotal>>
       ELSE IF ~isSpeaking
       THEN /\ ev' = "tick:quiet"
            /\ UNCHANGED <<recs, stopInFlight, isSpeaking, silenceStart, histVars>>
       ELSE IF silenceStart = None
       THEN /\ silenceStart' = now'
            /\ ev' = "tick:armed"
            /\ UNCHANGED <<recs, stopInFlight, isSpeaking, histVars>>
       ELSE IF SilenceElapsed(now')
       THEN /\ LET rec == mediaRecorderRef IN
               IF TickMayStop(rec)
               THEN /\ stopInFlight' = TRUE
                    /\ recs' = RecStop(recs, rec)
                    /\ ev' = "tick:stop"
               ELSE /\ ev' = "tick:silent"
                    /\ UNCHANGED <<recs, stopInFlight>>
            /\ silenceStart' = None
            /\ isSpeaking' = FALSE
            /\ lastAbove' = None
            /\ silentTotal' = 0
       ELSE /\ silentTotal' = Min(silentTotal + dt, SILENCE_DURATION_MS)
            /\ ev' = "tick:waiting"
            /\ UNCHANGED <<recs, stopInFlight, isSpeaking, silenceStart, lastAbove>>
    /\ UNCHANGED <<sessionActive, streamRef, streams, mediaRecorderRef, loops,
                   flushOpen>>
    /\ UNCHANGED <<uiVars, audioVars, pipeVars>>

\* ---- reader.onloadend up to its await: analyzeAudioFromBase64 invoked ----
ReaderLoaded(i) ==
    /\ Idle
    /\ calls[i] = "reading"
    /\ calls' = [calls EXCEPT ![i] = "invoked"]
    /\ ev' = "reader:loaded"
    /\ lastRms' = None
    /\ UNCHANGED endedAt
    /\ UNCHANGED <<llmVars, revealVars>>
    /\ UNCHANGED <<sessionActive, streamRef, streams, mediaRecorderRef, recs,
                   stopInFlight, loops, meterRaf, now, flushOpen, audioResults,
                   transcript, live>>
    /\ UNCHANGED <<uiVars, vadVars, histVars, audioVars>>

\* the call's catch ending the session
CallReturnsFatal(i, res) ==
    /\ Idle
    /\ calls[i] = "invoked"
    /\ calls' = [calls EXCEPT ![i] = IF res = "error" THEN "failed" ELSE "returned"]
    /\ IF res = "text"
       THEN /\ audioResults' = Append(audioResults, i)
            /\ live' = i
            /\ ev' = "call:text"
       ELSE /\ ev' = IF res = "empty" THEN "call:empty" ELSE "call:error"
            /\ UNCHANGED <<audioResults, live>>
    /\ lastRms' = None
    /\ UNCHANGED endedAt
    /\ UNCHANGED <<llmVars, revealVars>>
    /\ sessionActive' = IF res = "error" THEN FALSE ELSE sessionActive
    /\ UNCHANGED <<streamRef, streams, mediaRecorderRef, recs,
                   stopInFlight, loops, meterRaf, now, flushOpen, transcript>>
    /\ UNCHANGED <<uiVars, vadVars, histVars, audioVars>>

\* ---- reader.onloadend after the await: the call for segment i settles with
\*      a text, with no text, or with an error ----
CallReturns(i, res) ==
    /\ Idle
    /\ calls[i] = "invoked"
    /\ calls' = [calls EXCEPT ![i] = IF res = "error" THEN "failed" ELSE "returned"]
    /\ IF res = "text"
       THEN /\ audioResults' = Append(audioResults, i)
            /\ live' = i
            /\ ev' = "call:text"
       ELSE /\ ev' = IF res = "empty" THEN "call:empty" ELSE "call:error"
            /\ UNCHANGED <<audioResults, live>>
    /\ lastRms' = None
    /\ UNCHANGED endedAt
    /\ UNCHANGED <<llmVars, revealVars>>
    /\ UNCHANGED <<sessionActive, streamRef, streams, mediaRecorderRef, recs,
                   stopInFlight, loops, meterRaf, now, flushOpen, transcript>>
    /\ UNCHANGED <<uiVars, vadVars, histVars, audioVars>>

\* ---- animateText reaching the end of the text of the live reveal ----
RevealDone ==
    /\ Idle
    /\ live # NoReveal
    /\ transcript' = Append(transcript, live)
    /\ live' = NoReveal
    /\ ev' = "reveal:done"
    /\ lastRms' = None
    /\ UNCHANGED endedAt
    /\ UNCHANGED <<llmVars, revealVars>>
    /\ UNCHANGED <<sessionActive, streamRef, streams, mediaRecorderRef, recs,
                   stopInFlight, loops, meterRaf, now, flushOpen, calls,
                   audioResults>>
    /\ UNCHANGED <<uiVars, vadVars, histVars, audioVars>>

\* ---- stopRecording called again, or before any session was started ----
StopAgain ==
    /\ Idle
    /\ ~isRecording
    /\ ev \in {"init", "stop", "stop:again"}
    /\ StopRecording
    /\ lastAbove' = None
    /\ silentTotal' = 0
    /\ flushOpen' = FALSE
    /\ live' = NoReveal
    /\ ev' = "stop:again"
    /\ lastRms' = None
    /\ UNCHANGED endedAt
    /\ UNCHANGED <<llmVars, revealVars>>
    /\ UNCHANGED <<pendingStarts, noiseFloor, now, calls, audioResults, transcript>>
    /\ UNCHANGED <<isRecording, audioVars>>

\* ======== LLMHelper.analyzeAudioFromBase64 ========

\* lines 136-157: the temp file written, processPath = audioPath
StartRun(ext) ==
    [pc |-> "convert", ext |-> ext, processPath |-> "audio", files |-> {"audio"},
     created |-> {"audio"}, tried |-> <<>>, attempted |-> {}, last |-> "invoked",
     result |-> "none", source |-> "none"]

\* the outer catch of lines 309-312: the error goes to the caller
Throw(r) == [r EXCEPT !.pc = "failed", !.result = "error"]

\* lines 211-214
ExistsCheck(r) ==
    IF r.processPath \in r.files THEN [r EXCEPT !.pc = "transcribe"] ELSE Throw(r)

Tried(r, cmd, outcome) ==
    [r EXCEPT !.tried = Append(@, [cmd |-> cmd, outcome |-> outcome]),
              !.last = outcome]

Created(r, f) == [r EXCEPT !.files = @ \cup {f}, !.created = @ \cup {f}]

\* lines 162-193: convertCmd / boostCmd has settled
PrimaryDone(r, outcome) ==
    LET t == Tried(r, "primary", outcome) IN
    IF outcome = "error"
    THEN [t EXCEPT !.pc = "fallback"]
    ELSE IF outcome = "file"
    THEN ExistsCheck([Created(t, "boosted") EXCEPT !.processPath = "boosted"])
    ELSE IF r.ext # "wav"
    THEN [t EXCEPT !.pc = "fallback"]
    ELSE ExistsCheck([t EXCEPT !.processPath = "audio"])

\* line 196: audioPath.replace(`.${ext}`, '.wav') is audioPath itself for a wav
SimplePath(r) == IF r.ext = "wav" THEN "audio" ELSE "simple"

\* the inner catch rethrowing
SimpleFailedAborts(r) == Throw(r)

\* lines 205-208
SimpleFailed(r) == ExistsCheck([r EXCEPT !.processPath = "audio"])

\* lines 194-209: simpleCmd has settled
FallbackDone(r, outcome) ==
    LET t == Tried(r, "simple", outcome) IN
    IF outcome = "error"
    THEN SimpleFailed(t)
    ELSE LET u == IF outcome = "file" THEN Created(t, SimplePath(r)) ELSE t
         IN  ExistsCheck([u EXCEPT !.processPath = IF SimplePath(r) \in u.files
                                                 THEN SimplePath(r) ELSE @])

Unlink(r, f, ok) ==
    [r EXCEPT !.attempted = @ \cup {f}, !.files = IF ok THEN @ \ {f} ELSE @]

\* line 226: execAsync(whisperCommand) rejects
WhisperFailed(r) == Throw(r)

\* lines 226-288: whisperCommand has settled; the sidecar file is absent,
\* empty or holds text; its unlink works or not; the payload file is written
TranscribeDone(r, outcome, sidecar, unlinked) ==
    LET t == [r EXCEPT !.last = outcome] IN
    IF outcome = "error"
    THEN WhisperFailed(t)
    ELSE LET u == IF sidecar = "absent"
                  THEN [t EXCEPT !.source = "stdout"]
                  ELSE [Unlink(Created(t, "sidecar"), "sidecar", unlinked)
                           EXCEPT !.source = IF sidecar = "text"
                                             THEN "sidecar" ELSE "stdout"]
         IN  [Created(u, "payload") EXCEPT !.pc = "infer"]

\* lines 293-307: ollamaCommand has settled: a payload with a response, a
\* JSON payload without one, output that is not JSON, or curl failing
\* ollamaResponse.response for each payload the server can answer with: the
\* generated text, no such field, the empty string, or only whitespace
ResponseText(outcome) ==
    CASE outcome = "response" -> "text"
      [] outcome = "noresponse" -> "notext"
      [] outcome = "empty" -> "empty"
      [] outcome = "whitespace" -> "whitespace"

InferDone(r, outcome, unlinked) ==
    LET t == [r EXCEPT !.last = outcome] IN
    IF outcome \in {"unreachable", "garbage"}
    THEN Throw(t)
    ELSE [Unlink(Unlink(t, "payload", unlinked), "audio", unlinked)
             EXCEPT !.pc = "done",
                    !.result = ResponseText(outcome)]

AnalyzeAudioFromBase64(ext) ==
    /\ run.pc \in {"idle", "done", "failed"}
    /\ run' = StartRun(ext)
    /\ UNCHANGED <<frontVars, sel, esc, rv>>

ConvertCmd(outcome) ==
    /\ run.pc = "convert"
    /\ run' = PrimaryDone(run, outcome)
    /\ UNCHANGED <<frontVars, sel, esc, rv>>

SimpleCmd(outcome) ==
    /\ run.pc = "fallback"
    /\ outcome = "file" => run.ext # "wav"
    /\ run' = FallbackDone(run, outcome)
    /\ UNCHANGED <<frontVars, sel, esc, rv>>

WhisperCommand(outcome, sidecar, unlinked) ==
    /\ run.pc = "transcribe"
    /\ (outcome = "error" \/ sidecar = "absent") => unlinked
    /\ outcome = "error" => sidecar = "absent"
    /\ run' = TranscribeDone(run, outcome, sidecar, unlinked)
    /\ UNCHANGED <<frontVars, sel, esc, rv>>

OllamaCommand(outcome, unlinked) ==
    /\ run.pc = "infer"
    /\ outcome \in {"unreachable", "garbage"} => unlinked
    /\ run' = InferDone(run, outcome, unlinked)
    /\ UNCHANGED <<frontVars, sel, esc, rv>>

NextLLM ==
    \/ \E ext \in {"webm", "wav"} : AnalyzeAudioFromBase64(ext)
    \/ \E outcome \in {"file", "nofile", "error"} : ConvertCmd(outcome)
    \/ \E outcome \in {"file", "nofile", "error"} : SimpleCmd(outcome)
    \/ \E outcome \in {"ok", "error"}, sidecar \in {"absent", "empty", "text"},
          unlinked \in BOOLEAN : WhisperCommand(outcome, sidecar, unlinked)
    \/ \E outcome \in {"response", "noresponse", "garbage", "unreachable"},
          unlinked \in BOOLEAN : OllamaCommand(outcome, unlinked)

SpecLLM == Init /\ [][NextLLM]_vars

\* ======== the transcript taken from whisper-cli's output (lines 228-254) ========

MaxLines == 2
MaxLineLen == 2
MaxFileLen == 2

\* an ordinary character, the bracket, a log marker ('whisper_' or 'main:'
\* taken as one token) and the space
LineChars == {"a", "[", "m", " "}
FileChars == {"a", " "}

SeqsUpTo(S, n) == UNION {[1..k -> S] : k \in 0..n}

RECURSIVE TrimStart(_)
TrimStart(s) == IF s # <<>> /\ s[1] = " " THEN TrimStart(Tail(s)) ELSE s

RECURSIVE TrimEnd(_)
TrimEnd(s) ==
    IF s # <<>> /\ s[Len(s)] = " " THEN TrimEnd(SubSeq(s, 1, Len(s) - 1)) ELSE s

\* String.prototype.trim
Trim(s) == TrimEnd(TrimStart(s))

\* the line test without the log markers
KeepLineIgnoringMarkers(line) == line # <<>> /\ line[1] # "["

\* the line test of line 237
KeepLine(line) ==
    /\ line # <<>>
    /\ line[1] # "["
    /\ \A i \in 1..Len(line) : line[i] # "m"

\* the loop of lines 235-240
RECURSIVE ParseLines(_, _)
ParseLines(lines, acc) ==
    IF lines = <<>>
    THEN acc
    ELSE ParseLines(Tail(lines),
                    IF KeepLine(lines[1]) THEN acc \o lines[1] \o <<" ">> ELSE acc)

\* lines 229-242; stdout is given as its lines, '' as the one empty line
StdoutTranscription(lines) ==
    IF lines = << <<>> >> THEN <<>> ELSE Trim(ParseLines(lines, <<>>))

ParseStdout(lines) ==
    /\ sel.pc \in {"idle", "done"}
    /\ sel' = [pc |-> "parsed", stdout |-> lines, hasFile |-> FALSE,
               sidecar |-> <<>>, transcription |-> StdoutTranscription(lines)]
    /\ UNCHANGED <<frontVars, run, esc, rv>>

\* lines 245-254: readFile rejects when there is no file
ReadTranscriptionFile(hasFile, fileContent) ==
    /\ sel.pc = "parsed"
    /\ ~hasFile => fileContent = <<>>
    /\ sel' = [sel EXCEPT !.pc = "done", !.hasFile = hasFile,
                          !.sidecar = fileContent,
                          !.transcription = IF hasFile /\ fileContent # <<>>
                                            THEN Trim(fileContent) ELSE @]
    /\ UNCHANGED <<frontVars, run, esc, rv>>

NextSelect ==
    \/ \E k \in 1..MaxLines : \E lines \in [1..k -> SeqsUpTo(LineChars, MaxLineLen)] :
          ParseStdout(lines)
    \/ \E hasFile \in BOOLEAN, fileContent \in SeqsUpTo(FileChars, MaxFileLen) :
          ReadTranscriptionFile(hasFile, fileContent)

SpecSelect == Init /\ [][NextSelect]_vars

\* ======== the transcript escaped for the prompt (lines 262-268) ========

MaxTextLen == 3

\* backslash, double quote, newline, carriage return, tab, and a letter
EscChars == {"bs", "quote", "lf", "cr", "tab", "n"}

\* the replace calls with the backslash last
EscapeOrderBackslashLast == <<"quote", "lf", "cr", "tab", "bs">>

\* the replace calls of lines 264-268, in their order
EscapeOrder == <<"bs", "quote", "lf", "cr", "tab">>

Replacement(c) ==
    CASE c = "bs" -> <<"bs", "bs">>
      [] c = "quote" -> <<"bs", "quote">>
      [] c = "lf" -> <<"bs", "n">>
      [] c = "cr" -> <<"bs", "r">>
      [] c = "tab" -> <<"bs", "t">>

\* String.prototype.replace with a /g pattern of one character
RECURSIVE ReplaceAll(_, _)
ReplaceAll(s, c) ==
    IF s = <<>>
    THEN <<>>
    ELSE (IF s[1] = c THEN Replacement(c) ELSE <<s[1]>>) \o ReplaceAll(Tail(s), c)

EscapeTranscription(text) ==
    /\ esc.pc \in {"idle", "done"}
    /\ esc' = [pc |-> "escaping", input |-> text, text |-> text, step |-> 0]
    /\ UNCHANGED <<frontVars, run, sel, rv>>

\* the next .replace call of the chain
Replace ==
    /\ esc.pc = "escaping"
    /\ esc' = [esc EXCEPT !.text = ReplaceAll(@, EscapeOrder[esc.step + 1]),
                          !.step = @ + 1,
                          !.pc = IF esc.step + 1 = Len(EscapeOrder)
                                 THEN "done" ELSE "escaping"]
    /\ UNCHANGED <<frontVars, run, sel, rv>>

NextEscape ==
    \/ \E text \in SeqsUpTo(EscChars, MaxTextLen) : EscapeTranscription(text)
    \/ Replace

SpecEscape == Init /\ [][NextEscape]_vars

\* ======== simulateLiveTranscription.animateText (lines 127-177) ========

MaxWords == 3

\* the lengths of the words of a response and what separates two words
WordLens == {0, 5, 7, 11, 45}
Seps == {" ", "lf"}

Word(n) == [i \in 1..n |-> "x"]

RECURSIVE BuildText(_, _)
BuildText(ws, ss) ==
    IF Len(ws) = 1
    THEN Word(ws[1])
    ELSE Word(ws[1]) \o <<ss[1]>> \o BuildText(Tail(ws), Tail(ss))

Texts ==
    UNION {{BuildText(ws, ss) : ws \in [1..k -> WordLens], ss \in [1..(k - 1) -> Seps]} :
             k \in 1..MaxWords}

\* fullText[i], 0-based; "undefined" past the end
CharAt(text, i) == IF i >= 0 /\ i < Len(text) THEN text[i + 1] ELSE "undefined"

\* String.prototype.indexOf(c, from)
IndexOf(text, c, from) ==
    LET found == {i \in from..(Len(text) - 1) : text[i + 1] = c}
    IN  IF found = {} THEN -1 ELSE CHOOSE i \in found : \A j \in found : i <= j

\* a fourth, faster step for long remainders
CharsToAddFast(remainingChars) ==
    IF remainingChars > 100 THEN 4 ELSE IF remainingChars > 50 THEN 2 ELSE 1

\* lines 151-156
CharsToAdd(remainingChars) ==
    IF remainingChars > 100 THEN 3 ELSE IF remainingChars > 50 THEN 2 ELSE 1

\* the cut never moved to the next space
AdjustedIndexNoExtend(text, currentIndex) ==
    Min(currentIndex + CharsToAdd(Len(text) - currentIndex), Len(text))

\* lines 151-170
AdjustedIndex(text, currentIndex) ==
    LET charsToAdd == CharsToAdd(Len(text) - currentIndex)
        nextIndex == Min(currentIndex + charsToAdd, Len(text))
        nextChar == CharAt(text, nextIndex)
        currentChar == CharAt(text, currentIndex + charsToAdd - 1)
        spaceIndex == IndexOf(text, " ", nextIndex)
    IN  IF nextChar # "undefined" /\ nextChar # " " /\ currentChar # " "
        THEN IF spaceIndex # -1 /\ spaceIndex - nextIndex < 10
             THEN spaceIndex
             ELSE nextIndex
        ELSE nextIndex

MaxReveals == 3
MaxNoops == 2

\* the texts of the reveals that supersede one another
ShortLens == {1, 2}
ShortTexts ==
    UNION {{BuildText(ws, ss) : ws \in [1..k -> ShortLens], ss \in [1..(k - 1) -> {" "}]} :
             k \in 1..2}

\* line 207: result.text.trim() is not empty
HasText(text) == \E i \in DOMAIN text : text[i] \notin {" ", "lf"}

\* liveTranscription = null
NoLive(r) == [r EXCEPT !.text = <<>>, !.currentIndex = 0, !.displayed = <<>>,
                       !.messageId = 0]

\* a new reveal leaving the pending timers alone
CancelledNone(ref) == {}

\* lines 105-111: the timers in animationFrameRef and transcriptionTimeoutRef,
\* those of the chain that wrote them last, are cancelled
Cancelled(ref) == {ref}

\* line 129: prev.messageId !== messageId
SameMessage(prevId, messageId) == prevId = messageId

\* the reveal left in place by a clear
ClearedKeepsLive(r) == [r EXCEPT !.cleared = @ \cup {r.messageId}]

\* setLiveTranscription(null) on a reveal in progress
Cleared(r) == [NoLive(r) EXCEPT !.pc = "cleared", !.cleared = @ \cup {r.messageId}]

\* the finished reveal left in place
CompletionKeepsLive(r) == r

\* line 147: the updater returns null
Completion(r) == [NoLive(r) EXCEPT !.pc = "done"]

\* lines 104-188: a reveal begins: the timers are cancelled, the state is set,
\* animateText runs once and schedules its next run
SimulateLiveTranscription(text) ==
    /\ HasText(text)
    /\ rv.started < MaxReveals
    /\ LET id == rv.started + 1
           adjustedIndex == AdjustedIndex(text, 0)
       IN  rv' = [rv EXCEPT !.pc = "revealing",
                            !.text = text,
                            !.currentIndex = adjustedIndex,
                            !.displayed = SubSeq(text, 1, adjustedIndex),
                            !.messageId = id,
                            !.started = id,
                            !.chains = (@ \ Cancelled(rv.timerRef)) \cup {id},
                            !.superseded = IF rv.pc = "revealing"
                                           THEN @ \cup {rv.messageId} ELSE @,
                            !.timerRef = id]
    /\ UNCHANGED <<frontVars, run, sel, esc>>

\* lines 127-184: one run of the animateText of the reveal with this
\* messageId, from its timer
AnimateText(messageId) ==
    /\ messageId \in rv.chains
    /\ LET t == [rv EXCEPT !.timerRef = messageId] IN
       rv' = IF rv.pc # "revealing" \/ ~SameMessage(rv.messageId, messageId)
             THEN [t EXCEPT !.noops = Min(@ + 1, MaxNoops)]
             ELSE IF rv.currentIndex >= Len(rv.text)
             THEN [Completion(t) EXCEPT !.entries = Append(@, [id |-> rv.messageId,
                                                               text |-> rv.text])]
             ELSE LET adjustedIndex == AdjustedIndex(rv.text, rv.currentIndex)
                  IN  [t EXCEPT !.currentIndex = adjustedIndex,
                                !.displayed = SubSeq(rv.text, 1, adjustedIndex)]
    /\ UNCHANGED <<frontVars, run, sel, esc>>

\* setLiveTranscription(null) of sendAudioForAnalysis (line 194) and of
\* stopRecording (line 387); no timer is cancelled
ClearLive ==
    /\ rv.pc = "revealing"
    /\ rv' = Cleared(rv)
    /\ UNCHANGED <<frontVars, run, sel, esc>>

\* handleRecordClick starting a session (lines 393-395)
ResetTranscript ==
    /\ rv.pc = "revealing" \/ rv.entries # <<>>
    /\ rv' = [(IF rv.pc = "revealing" THEN Cleared(rv) ELSE rv) EXCEPT !.entries = <<>>]
    /\ UNCHANGED <<frontVars, run, sel, esc>>

\* one reveal of a long text
NextReveal ==
    \/ \E text \in Texts : rv.started = 0 /\ SimulateLiveTranscription(text)
    \/ \E messageId \in 1..MaxReveals : AnimateText(messageId)

SpecReveal == Init /\ [][NextReveal]_vars

\* the ticks of the reveal keep coming: animateText reschedules itself
SpecRevealFair == SpecReveal /\ WF_vars(\E messageId \in 1..MaxReveals : AnimateText(messageId))

\* reveals of short texts superseding and clearing one another
NextLive ==
    \/ \E text \in ShortTexts : SimulateLiveTranscription(text)
    \/ \E messageId \in 1..MaxReveals : AnimateText(messageId)
    \/ ClearLive
    \/ ResetTranscript

SpecLive == Init /\ [][NextLive]_vars

Next ==
    \/ StartClick
    \/ \E outcome \in {"ok", "denied", "setup_error"} : StartResume(outcome)
    \/ StopClick
    \/ ManualFlush
    \/ \E r \in DOMAIN recs : OnStart(r)
    \/ \E r \in DOMAIN recs : DataAvailable(r)
    \/ \E r \in DOMAIN recs, hasData \in BOOLEAN : OnStopTry(r, hasData)
    \/ \E r \in DOMAIN recs, fails \in BOOLEAN : OnStopFinally(r, fails)
    \/ \E l \in DOMAIN loops, dt \in CoarseDeltas, rms \in CoarseRms \cup {0} :
          Tick(l, dt, rms)

Spec == Init /\ [][Next]_vars

\* One session at frame gaps fine enough to tell continuous from cumulative
\* silence and to calibrate over several frames.
NextVAD ==
    \/ StartClick /\ streams = <<>> /\ pendingStarts = 0
    \/ StartResume("ok")
    \/ StopClick
    \/ ManualFlush
    \/ \E r \in DOMAIN recs : OnStart(r)
    \/ \E r \in DOMAIN recs : OnStopTry(r, FALSE)
    \/ \E r \in DOMAIN recs : OnStopFinally(r, FALSE)
    \/ \E l \in DOMAIN loops, dt \in FineDeltas, rms \in FineRms \cup {0} :
          now + dt <= MaxVadTime /\ Tick(l, dt, rms)

SpecVAD == Init /\ [][NextVAD]_vars

\* One session from its start through the calibration window, at three
\* reading levels.
NextCal ==
    \/ StartClick /\ streams = <<>> /\ pendingStarts = 0
    \/ StartResume("ok")
    \/ \E r \in DOMAIN recs : OnStart(r)
    \/ \E l \in DOMAIN loops, dt \in FineDeltas \cup CoarseDeltas, rms \in CalRms :
          now + dt <= MaxCalTime /\ Tick(l, dt, rms)

SpecCal == Init /\ [][NextCal]_vars

\* Segments cut by manual flushes, and their pipeline calls.
NextPipe ==
    \/ StartClick
    \/ StartResume("ok")
    \/ StopClick
    \/ ManualFlush
    \/ \E r \in DOMAIN recs : OnStart(r)
    \/ \E r \in DOMAIN recs : DataAvailable(r)
    \/ \E r \in DOMAIN recs, hasData \in BOOLEAN : OnStopTry(r, hasData)
    \/ \E r \in DOMAIN recs : OnStopFinally(r, FALSE)
    \/ \E i \in DOMAIN calls : ReaderLoaded(i)
    \/ \E i \in DOMAIN calls, res \in {"text", "empty", "error"} : CallReturns(i, res)
    \/ RevealDone

SpecPipe == Init /\ [][NextPipe]_vars

\* what String.prototype.trim leaves of the text of a result
TrimText(text) == IF text = "whitespace" THEN "empty" ELSE text

\* a falsy text: undefined or the empty string
Falsy(text) == text \in {"notext", "empty"}

\* the test of onloadend without its trim
CallResultNoTrim(r) ==
    IF r.pc = "failed" THEN "error"
    ELSE IF ~Falsy(r.result) THEN "text" ELSE "empty"

\* how onloadend takes the outcome of analyzeAudioFromBase64: a rejection is
\* caught, a result passes result?.text && result.text.trim() or does not
CallResult(r) ==
    IF r.pc = "failed" THEN "error"
    ELSE IF ~Falsy(r.result) /\ ~Falsy(TrimText(r.result)) THEN "text" ELSE "empty"

\* one session, one segment, and the run of the pipeline that serves its call
NextCall ==
    \/ StartClick /\ streams = <<>> /\ pendingStarts = 0
    \/ StartResume("ok")
    \/ StopClick
    \/ \E r \in DOMAIN recs : OnStart(r)
    \/ \E r \in DOMAIN recs : DataAvailable(r)
    \/ \E r \in DOMAIN recs, hasData \in BOOLEAN : OnStopTry(r, hasData)
    \/ \E r \in DOMAIN recs : OnStopFinally(r, FALSE)
    \/ \E i \in DOMAIN calls : ReaderLoaded(i)
    \/ \E i \in DOMAIN calls :
          calls[i] = "invoked" /\ run.pc = "idle" /\ AnalyzeAudioFromBase64("webm")
    \/ \E outcome \in {"file", "nofile", "error"} : ConvertCmd(outcome)
    \/ \E outcome \in {"file", "nofile", "error"} : SimpleCmd(outcome)
    \/ \E outcome \in {"ok", "error"}, sidecar \in {"absent", "empty", "text"},
          unlinked \in BOOLEAN : WhisperCommand(outcome, sidecar, unlinked)
    \/ \E outcome \in {"response", "noresponse", "empty", "whitespace", "garbage",
                        "unreachable"},
          unlinked \in BOOLEAN : OllamaCommand(outcome, unlinked)
    \/ \E i \in DOMAIN calls :
          run.pc \in {"done", "failed"} /\ CallReturns(i, CallResult(run))
    \/ RevealDone

SpecCall == Init /\ [][NextCall]_vars

\* The session machine with stopRecording also called a second time.
NextTeardown ==
    \/ StartClick
    \/ \E outcome \in {"ok", "denied", "setup_error"} : StartResume(outcome)
    \/ StopClick
    \/ StopAgain
    \/ ManualFlush
    \/ \E r \in DOMAIN recs : OnStart(r)
    \/ \E r \in DOMAIN recs : OnStopTry(r, FALSE)
    \/ \E r \in DOMAIN recs, fails \in BOOLEAN : OnStopFinally(r, fails)
    \/ \E l \in DOMAIN loops, dt \in CoarseDeltas, rms \in CoarseRms \cup {0} :
          Tick(l, dt, rms)

SpecTeardown == Init /\ [][NextTeardown]_vars

\* one session at a time; the hand-off to the dispatcher may throw
NextHandoff ==
    \/ StartClick /\ pendingStarts = 0
    \/ StartResume("ok")
    \/ StopClick
    \/ ManualFlush
    \/ \E r \in DOMAIN recs : OnStart(r)
    \/ \E r \in DOMAIN recs : DataAvailable(r)
    \/ \E r \in DOMAIN recs, hasData \in BOOLEAN : OnStopTry(r, hasData)
    \/ \E r \in DOMAIN recs, hasData \in BOOLEAN : OnStopTryThrows(r, hasData)
    \/ \E r \in DOMAIN recs : OnStopFinally(r, FALSE)

SpecHandoff == Init /\ [][NextHandoff]_vars

\* ======================= claims =======================

Cur == mediaRecorderRef

\* C1: at most one CaptureUnit is in the recording state at any instant,
\* whatever the interleaving of session start / stop, flush, ticks and
\* recorder callbacks.
C1_AtMostOneRecording == Cardinality(Recording) <= 1

\* C2: every blob a CaptureUnit has delivered is either still accumulated
\* or in exactly one dispatched segment: none is lost, none is sent twice.
Delivered == 1 .. (nextChunk - 1)

Held(c) == \E i \in DOMAIN chunks : chunks[i] = c

SegmentsWith(c) ==
    {i \in DOMAIN segments : \E j \in DOMAIN segments[i] : segments[i][j] = c}

C2_NoChunkLostOrDuplicated ==
    \A c \in Delivered :
        \/ Held(c) /\ SegmentsWith(c) = {}
        \/ ~Held(c) /\ Cardinality(SegmentsWith(c)) = 1
\* C3 (as claimed): once a manual flush has been accepted, no further manual
\* flush issues a stop request until the start callback of the replacement
\* unit has run: two flushes in rapid succession give one stop, one finalize.
C3_OneStopPerFlushWindow ==
    [][(flushOpen /\ ev' = "flush:stop") => recs' = recs]_vars

\* Sub-threshold frames, by what the tick did with them.
SubTags == {"tick:quiet", "tick:armed", "tick:waiting", "tick:stop", "tick:silent"}

SpeakingToSilent == isSpeaking /\ ~isSpeaking'

\* C4 (as claimed): while the session runs, Speaking goes to Silent exactly
\* on a sub-threshold tick at least SILENCE_DURATION_MS after the last
\* above-threshold tick, and on no other event.
C4_SilentIffSilenceSinceLastSpeech ==
    [][(sessionActive /\ sessionActive') =>
        (SpeakingToSilent <=>
            /\ isSpeaking
            /\ ev' \in SubTags
            /\ now' # now
            /\ lastAbove # None
            /\ now' - lastAbove >= SILENCE_DURATION_MS)]_vars

\* C4 (amended): a tick moves Speaking to Silent exactly when it is
\* sub-threshold and SILENCE_DURATION_MS have passed since the silence
\* timer was armed (at the first sub-threshold tick after the last speech
\* tick); besides ticks, exactly the start callback of a recorder and
\* stopRecording move Speaking to Silent.
C4_SilentIffTimerElapsedOrReset ==
    [][SpeakingToSilent <=>
        /\ isSpeaking
        /\ \/ /\ ev' \in SubTags
              /\ now' # now
              /\ silenceStart # None
              /\ lastAbove # None /\ lastAbove < silenceStart
              /\ now' - silenceStart >= SILENCE_DURATION_MS
           \/ ev' = "onstart:silenced"
           \/ ev' = "stop" /\ (isRecording /\ ~isRecording')]_vars

C4_Witness == ev = "onstart:silenced" /\ sessionActive /\ Recording # {}

\* C5: a tick above the threshold clears the silence timer, and a tick ends
\* the utterance (with or without a stop request) only when every tick of
\* the last SILENCE_DURATION_MS was sub-threshold: silence before the last
\* speech tick never counts.
C5_OnlyContinuousSilence ==
    [][/\ (ev' = "tick:speech" /\ now' # now) => silenceStart' = None
       /\ (ev' \in {"tick:stop", "tick:silent"} /\ now' # now) =>
            /\ silenceStart # None
            /\ lastAbove # None /\ lastAbove < silenceStart
            /\ now' - silenceStart >= SILENCE_DURATION_MS
       /\ (silenceStart # None /\ silenceStart' # None) => silenceStart' = silenceStart]_vars

\* sub-threshold time adding up to SILENCE_DURATION_MS, interrupted by
\* speech, and the utterance still open
C5_Witness ==
    /\ isSpeaking
    /\ silentTotal >= SILENCE_DURATION_MS
    /\ ev = "tick:waiting"
    /\ silenceStart # None /\ now - silenceStart < SILENCE_DURATION_MS
\* the unit whose onstop handler takes its first / second half in this step
Finalizing(r) == recs[r].stopEv = "queued" /\ recs'[r].stopEv = "running"

Finalized(r) == recs[r].stopEv = "running" /\ recs'[r].stopEv \in {"done", "failed"}

IsPrefix(p, q) == Len(p) <= Len(q) /\ \A i \in DOMAIN p : p[i] = q[i]

\* C6: when a unit finalizes with accumulated blobs, they are handed to the
\* pipeline as one segment in the first half of onstop, whether or not the
\* session is still active, and no unit is created in that half; when the
\* replacement is created nothing accumulated is left undispatched.
C6_DispatchBeforeReplacement ==
    [][\A r \in DOMAIN recs :
        /\ (Finalizing(r) /\ chunks # <<>>) =>
              /\ Len(segments') = Len(segments) + 1
              /\ IsPrefix(chunks, segments'[Len(segments')])
              /\ chunks' = <<>>
              /\ Len(recs') = Len(recs)
        /\ (Finalized(r) /\ Len(recs') > Len(recs)) =>
              /\ chunks = <<>>
              /\ segments' = segments]_vars

\* a finalize caused by stopRecording has handed its blobs over and is
\* suspended before the finally block
C6_Witness ==
    /\ ev = "onstop:dispatched"
    /\ ~sessionActive
    /\ segments # <<>>
    /\ \E r \in DOMAIN recs : recs[r].stopEv = "running" /\ recs[r].stopCalls = 1

Replaced(r) ==
    /\ Len(recs') = Len(recs) + 1
    /\ recs'[Len(recs')].state = "recording"
    /\ recs'[Len(recs')].stream = streamRef
    /\ streams[streamRef]
    /\ mediaRecorderRef' = Len(recs')

C8_NoCaptureAfterStop ==
    /\ [][\A r \in DOMAIN recs :
            (Finalized(r) /\ ~sessionActive) =>
                /\ Len(recs') = Len(recs)
                /\ mediaRecorderRef' = NoRec
                /\ ~streams[recs[r].stream]]_vars
    /\ [](~isRecording => Recording = {})

C10_ClearedOnlyWhenReplaced ==
    [][(stopInFlight /\ ~stopInFlight') =>
        \/ ~sessionActive'
        \/ /\ ev' \in {"onstart", "onstart:silenced"}
           /\ Cur # NoRec
           /\ recs[Cur].state = "recording"
           /\ recs[Cur].startEv /\ ~recs'[Cur].startEv]_vars

\* C11 (as claimed): when the finalize callback of a unit has completed,
\* stopInFlight is false, also when the replacement could not be started.
C11_ClearedWhenFinalizeCompletes ==
    [][\A r \in DOMAIN recs : Finalized(r) => ~stopInFlight']_vars

\* C12: a manual flush made while stopInFlight is true or while no unit is
\* recording issues no stop and leaves stopInFlight, the current unit, the
\* accumulated chunks and the speech state as they were.
C12_RejectedFlushIsNoOp ==
    [][(/\ ev' \in {"flush:noop", "flush:stop"}
        /\ (stopInFlight \/ Cur = NoRec \/ recs[Cur].state # "recording")) =>
            /\ recs' = recs
            /\ stopInFlight' = stopInFlight
            /\ mediaRecorderRef' = mediaRecorderRef
            /\ chunks' = chunks
            /\ isSpeaking' = isSpeaking
            /\ silenceStart' = silenceStart]_vars

\* a flush rejected by the flag alone: the current unit is recording
C12_Witness ==
    /\ ev = "flush:noop"
    /\ stopInFlight
    /\ Cur # NoRec
    /\ recs[Cur].state = "recording"

StopRequested(r) ==
    /\ recs[r].state = "recording"
    /\ recs'[r].state = "inactive"
    /\ recs'[r].stopEv = "queued"
    /\ recs'[r].stopCalls = recs[r].stopCalls + 1

\* C13: a tick that moves Speaking to Silent clears the silence timer, and
\* it requests a stop on the current unit exactly when no stop is in flight
\* and that unit is recording; otherwise it touches no unit and leaves
\* stopInFlight alone.
C13_StopIffFreeAndRecording ==
    [][(lastRms' # None /\ isSpeaking /\ ~isSpeaking') =>
        /\ silenceStart' = None
        /\ IF ~stopInFlight /\ Cur # NoRec /\ recs[Cur].state = "recording"
           THEN /\ StopRequested(Cur)
                /\ stopInFlight'
                /\ \A q \in DOMAIN recs \ {Cur} : recs'[q] = recs[q]
           ELSE /\ recs' = recs
                /\ stopInFlight' = stopInFlight]_vars

C13_Witness ==
    /\ ev = "tick:stop"
    /\ lastRms # None
    /\ stopInFlight
    /\ ~isSpeaking
    /\ silenceStart = None
    /\ Cur # NoRec
    /\ recs[Cur].stopEv = "queued"

InFlight == {i \in DOMAIN calls : calls[i] = "invoked"}

\* C14 (as claimed): at most one pipeline invocation is in flight at any
\* time, also when two segments finalize in quick succession.
C14_OneCallInFlight == Cardinality(InFlight) <= 1

Increasing(q) == \A i, j \in DOMAIN q : i < j => q[i] < q[j]

\* C15 (as claimed): the responses are recorded in the result list and in
\* the transcript in the order in which their segments were finalized.
C15_ResponsesInUtteranceOrder == Increasing(audioResults) /\ Increasing(transcript)

\* C16 (as claimed): stopSession leaves the pipeline calls alone, and a call
\* dispatched before stopSession that settles after the session has ended
\* starts no reveal and adds nothing to the results or the transcript.
C16_LateResultDiscarded ==
    [][/\ (isRecording /\ ~isRecording') => calls' = calls
       /\ \A i \in DOMAIN calls :
            (/\ calls[i] = "invoked" /\ calls'[i] = "returned"
             /\ ~isRecording /\ ~sessionActive
             /\ endedAt # None /\ i <= endedAt) =>
                /\ audioResults' = audioResults
                /\ live' = live
                /\ transcript' = transcript]_vars

\* C17 (as claimed): right after stopSession no tick loop runs, no unit is
\* recording, every stream is released, and NoiseFloor, the speech state
\* and stopInFlight hold their initial values.
C17_TeardownRestoresInitialValues ==
    [][(isRecording /\ ~isRecording') =>
        /\ meterRaf' = 0
        /\ \A l \in DOMAIN loops' : ~loops'[l].running
        /\ \A r \in DOMAIN recs' : recs'[r].state # "recording"
        /\ \A s \in DOMAIN streams' : ~streams'[s]
        /\ noiseFloor' = None
        /\ ~isSpeaking'
        /\ silenceStart' = None
        /\ ~stopInFlight']_vars

\* C18: stopRecording called again right after stopRecording, or before any
\* session was started, changes nothing: the session state stays as the
\* first call left it and no unit receives a further stop.
C18_SecondStopChangesNothing ==
    [][ev' = "stop:again" =>
        UNCHANGED <<isRecording, pendingStarts, sessionActive, streamRef, streams,
                    mediaRecorderRef, recs, chunks, nextChunk, segments,
                    stopInFlight, isSpeaking, silenceStart, noiseFloor, loops,
                    meterRaf, now, calls, audioResults, transcript, live>>]_vars

\* the second call follows a stopRecording that stopped a unit whose stop
\* event is still queued
C18_Witness ==
    /\ ev = "stop:again"
    /\ \E r \in DOMAIN recs : recs[r].stopEv = "queued" /\ recs[r].stopCalls = 1

\* C19: a tick changes NoiseFloor only while less than CALIBRATION_MS have
\* passed since its loop was started (the first sample as it is, then
\* 0.9 * old + 0.1 * sample), a tick outside the window leaves it alone,
\* and nothing but a tick changes it during the session; time never runs
\* backwards, so no tick after the window alters it.
C19_FrozenAfterCalibration ==
    [][/\ \A l \in DOMAIN loops :
            (lastRms' # None /\ meterRaf' = l) =>
                IF now' - loops[l].startTs < CALIBRATION_MS
                THEN noiseFloor' = IF noiseFloor = None
                                   THEN lastRms'
                                   ELSE (noiseFloor * 9 + lastRms') \div 10
                ELSE noiseFloor' = noiseFloor
       /\ noiseFloor' # noiseFloor => lastRms' # None
       /\ now' >= now]_vars

\* a tick outside the window whose reading differs from the frozen blend
C19_Witness ==
    /\ lastRms # None
    /\ noiseFloor # None
    /\ noiseFloor \notin CalRms
    /\ lastRms # noiseFloor
    /\ meterRaf # 0
    /\ now - loops[meterRaf].startTs >= CALIBRATION_MS

\* C20: on every tick the decision threshold is
\* max(MIN_THRESHOLD_RMS, noise * NOISE_MULTIPLIER), noise being the
\* NoiseFloor after this tick's fold or 0.001 when unset; it is never below
\* MIN_THRESHOLD_RMS, Silent becomes Speaking exactly when the reading
\* exceeds it, and a reading at or below MIN_THRESHOLD_RMS never does so.
C20_ThresholdNeverBelowMinimum ==
    [][lastRms' # None =>
        LET noise == IF noiseFloor' = None THEN DEFAULT_NOISE ELSE noiseFloor'
            threshold == Max(MIN_THRESHOLD_RMS, noise * NOISE_MULTIPLIER)
        IN  /\ threshold >= MIN_THRESHOLD_RMS
            /\ ~isSpeaking => (isSpeaking' <=> lastRms' > threshold)
            /\ (~isSpeaking /\ lastRms' <= MIN_THRESHOLD_RMS) => ~isSpeaking']_vars

\* a reading of 0.0005, above twice the calibrated noise floor and below
\* MIN_THRESHOLD_RMS, has left the state Silent
C20_Witness ==
    /\ lastRms = 5000
    /\ noiseFloor # None
    /\ noiseFloor * NOISE_MULTIPLIER < lastRms
    /\ ~isSpeaking
    /\ ev = "tick:quiet"

\* C21 (as claimed): silenceStartTime is set only while isSpeaking is true
\* and no above-threshold tick has followed its arming, and it is cleared
\* by a tick above the threshold and by every stop request, the manual
\* flush's included.
C21_TimerClearedByEveryStop ==
    /\ [](silenceStart # None =>
           (isSpeaking /\ lastAbove # None /\ lastAbove < silenceStart))
    /\ [][/\ (lastRms' # None /\ ~(lastRms' <= Threshold(noiseFloor'))) =>
               silenceStart' = None
          /\ ev' \in {"tick:stop", "flush:stop"} => silenceStart' = None]_vars

\* C21 (amended): silenceStartTime is set only by a sub-threshold tick while
\* isSpeaking is true, it stays set only while isSpeaking is true and no
\* above-threshold tick has followed, and it is cleared by a tick above
\* the threshold, by the tick that ends the utterance, by a recorder's
\* start callback and by stopRecording; an accepted manual flush leaves it
\* as it is.
C21_TimerClearedByTickOrStart ==
    /\ [](silenceStart # None =>
           (isSpeaking /\ lastAbove # None /\ lastAbove < silenceStart))
    /\ [][/\ (lastRms' # None /\ ~(lastRms' <= Threshold(noiseFloor'))) =>
               silenceStart' = None
          /\ (silenceStart = None /\ silenceStart' # None) =>
               /\ lastRms' # None
               /\ lastRms' <= Threshold(noiseFloor')
               /\ isSpeaking
               /\ silenceStart' = now'
          /\ ev' \in {"tick:stop", "tick:silent", "onstart", "onstart:silenced", "stop"} =>
               silenceStart' = None
          /\ ev' \in {"flush:stop", "flush:noop"} => silenceStart' = silenceStart]_vars

\* a manual flush accepted while the silence timer is armed
C21_Witness ==
    /\ ev = "flush:stop"
    /\ stopInFlight
    /\ isSpeaking
    /\ silenceStart # None

PastConversion == run.pc \in {"transcribe", "infer", "done", "failed"}

\* C22 (as claimed): a primary conversion that fails, by an error or by
\* leaving no file, is followed by the simplified command, and the
\* original file is transcribed only after the simplified command has been
\* tried and has not yielded a file either.
C22_FallbackBeforeOriginal ==
    PastConversion =>
        /\ run.tried[1].outcome # "file" =>
                (Len(run.tried) = 2 /\ run.tried[2].cmd = "simple")
        /\ run.processPath = "audio" =>
                (Len(run.tried) = 2 /\ run.tried[2].outcome # "file")

\* C23: no outcome of the primary and of the simplified conversion aborts
\* the run: after stage 1 the run goes on to transcription, and with an
\* inference response it returns a result.
C23_ConversionNeverAborts ==
    [][/\ (run.pc \in {"convert", "fallback"} /\ run' # run) =>
                run'.pc \in {"fallback", "transcribe"}
       /\ (run.pc = "infer" /\ run'.last = "response") =>
                (run'.pc = "done" /\ run'.result = "text")]_vars

\* both conversions failed and the run returned a result
C23_Witness ==
    /\ run.pc = "done"
    /\ run.result = "text"
    /\ run.processPath = "audio"
    /\ Len(run.tried) = 2
    /\ run.tried[2].outcome = "error"

\* C24 (as claimed): a failing transcription, an unreachable inference
\* server and a malformed or unusable inference payload each abort the run
\* with an error for the caller, and no result is returned.
C24_StageFailureAborts ==
    [][(\/ run.pc = "transcribe" /\ run'.last = "error"
        \/ run.pc = "infer" /\ run'.last \in {"unreachable", "garbage", "noresponse"}) =>
            (run'.pc = "failed" /\ run'.result = "error")]_vars

Intermediate == run.created \cap {"boosted", "simple", "payload", "sidecar"}

\* C25 (as claimed): when a run has ended, deletion has been attempted for
\* every intermediate file it created (converted audio, payload, sidecar),
\* and a run fails only by a failing stage, never by a failing deletion.
C25_IntermediateFilesDeleted ==
    /\ run.pc \in {"done", "failed"} => Intermediate \subseteq run.attempted
    /\ run.pc = "failed" => run.last \in {"error", "unreachable", "garbage"}

\* a line that is not empty, does not begin with '[' and holds no log marker
TranscriptLine(line) ==
    Len(line) > 0 /\ Head(line) # "[" /\ "m" \notin {line[i] : i \in DOMAIN line}

RECURSIVE JoinLines(_)
JoinLines(lines) ==
    IF lines = <<>>
    THEN <<>>
    ELSE IF Len(lines) = 1
    THEN lines[1]
    ELSE lines[1] \o <<" ">> \o JoinLines(Tail(lines))

FromStdout == Trim(JoinLines(SelectSeq(sel.stdout, TranscriptLine)))

\* C26 (as claimed): whenever a sibling transcript file is produced its
\* contents are the transcript; otherwise the transcript is made of the
\* non-empty stdout lines that neither begin with '[' nor hold a log marker.
C26_FilePreferredWhenProduced ==
    sel.pc = "done" =>
        sel.transcription = IF sel.hasFile THEN Trim(sel.sidecar) ELSE FromStdout

\* C26 (amended): a sibling transcript file that is not empty gives the
\* transcript (its contents, trimmed); with no file, or with an empty one,
\* the transcript is the non-empty stdout lines that neither begin with '['
\* nor hold a log marker, joined by spaces and trimmed.
C26_NonEmptyFilePreferred ==
    sel.pc = "done" =>
        sel.transcription = IF sel.hasFile /\ sel.sidecar # <<>>
                            THEN Trim(sel.sidecar)
                            ELSE FromStdout

\* a file preferred over a different stdout transcript with log lines in it
C26_Witness ==
    /\ sel.pc = "done"
    /\ sel.hasFile
    /\ sel.sidecar = <<"a", " ">>
    /\ sel.stdout = << <<"[", "a">>, <<"a", "a">> >>
    /\ sel.transcription = <<"a">>

EscapeRank(c) ==
    CASE c = "bs" -> 1 [] c = "quote" -> 2 [] c = "lf" -> 3 [] c = "cr" -> 4
      [] c = "tab" -> 5 [] OTHER -> 6

EscapeLetter(c) ==
    CASE c = "bs" -> "bs" [] c = "quote" -> "quote" [] c = "lf" -> "n"
      [] c = "cr" -> "r" [] c = "tab" -> "t"

\* the text with every character of the first k kinds turned into a backslash
\* and one letter, and every other character kept
RECURSIVE EscapedUpTo(_, _)
EscapedUpTo(text, k) ==
    IF text = <<>>
    THEN <<>>
    ELSE (IF EscapeRank(Head(text)) <= k
          THEN <<"bs", EscapeLetter(Head(text))>>
          ELSE <<Head(text)>>) \o EscapedUpTo(Tail(text), k)

\* C27: the escaping handles backslash, quote, newline, carriage return and
\* tab in that order: after k steps exactly the characters of the first k
\* kinds of the input stand as one backslash and one letter each, and no
\* backslash put in by a step is escaped again.
C27_EachCharacterEscapedOnce ==
    esc.pc \in {"escaping", "done"} =>
        /\ esc.step \in 0..5
        /\ esc.pc = "done" <=> esc.step = 5
        /\ esc.text = EscapedUpTo(esc.input, esc.step)

\* a quote after a backslash, escaped
C27_Witness ==
    /\ esc.pc = "done"
    /\ esc.input = <<"bs", "quote", "lf">>
    /\ esc.text = <<"bs", "bs", "bs", "quote", "bs", "n">>

\* C28: a pipeline call that fails changes nothing of the session:
\* Session.active, the current recorder, every recorder's state, stopInFlight,
\* the tick loops, the results and the reveal stay as they are.
C28_CallErrorNotFatal ==
    [][\A i \in DOMAIN calls :
          (calls[i] = "invoked" /\ calls'[i] = "failed") =>
              /\ sessionActive' = sessionActive
              /\ isRecording' = isRecording
              /\ mediaRecorderRef' = mediaRecorderRef
              /\ recs' = recs
              /\ stopInFlight' = stopInFlight
              /\ loops' = loops
              /\ meterRaf' = meterRaf
              /\ chunks' = chunks
              /\ segments' = segments
              /\ audioResults' = audioResults
              /\ transcript' = transcript
              /\ live' = live]_vars

\* a segment dispatched in a session in which an earlier call has failed
C28_Witness ==
    /\ ev = "onstop:dispatched"
    /\ sessionActive
    /\ \E i \in DOMAIN calls : calls[i] = "failed" /\ i < Len(calls)
    /\ calls[Len(calls)] = "reading"

Running == {l \in DOMAIN loops : loops[l].running}

\* C29: a start that fails, by the microphone being denied or by the setup
\* throwing, reports the microphone error and starts nothing: Session.active,
\* the recorders and the tick loops are left as they were, and with no other
\* start pending and no session active, Session.active is false, no
\* recorder is recording and no tick loop runs.
C29_FailedStartStartsNothing ==
    [][ev' \in {"start:denied", "start:setup_error"} =>
          /\ audioResults' = Append(audioResults, MicError)
          /\ sessionActive' = sessionActive
          /\ recs' = recs
          /\ mediaRecorderRef' = mediaRecorderRef
          /\ loops' = loops
          /\ meterRaf' = meterRaf
          /\ (~sessionActive /\ Recording = {} /\ Running = {}) =>
                (~sessionActive' /\ Recording' = {} /\ Running' = {})]_vars

\* the setup has failed after the stream was acquired
C29_Witness ==
    /\ ev = "start:setup_error"
    /\ streamRef # NoStream
    /\ ~sessionActive
    /\ Recording = {}
    /\ Running = {}
    /\ audioResults # <<>>
    /\ audioResults[Len(audioResults)] = MicError

HelloWorldTesting == BuildText(<<5, 5, 7>>, <<" ", " ">>)

\* the cut at d stands between two characters of one word
MidWord(text, d) == d > 0 /\ d < Len(text) /\ text[d] # " " /\ text[d + 1] # " "

\* the places of the spaces among the 10 characters from d on
SpacesWithin10(text, d) == {i \in d..(d + 9) : i < Len(text) /\ text[i + 1] = " "}

C31_FinitePrefixSequence ==
    /\ [](rv.pc = "revealing" =>
            /\ IsPrefix(rv.displayed, rv.text)
            /\ rv.currentIndex <= Len(rv.text))
    /\ [][(rv'.pc = "revealing" /\ rv'.currentIndex # rv.currentIndex) =>
            LET from == IF rv'.messageId = rv.messageId THEN rv.currentIndex ELSE 0
                to == rv'.currentIndex
            IN  /\ to > from
                /\ \E k \in 1..3 :
                      LET planned == Min(from + k, Len(rv'.text))
                      IN  \/ to = planned
                          \/ /\ to > planned
                             /\ to - planned < 10
                             /\ rv'.text[to + 1] = " "]_vars
    /\ (rv.pc = "revealing") ~> (rv.pc = "revealing" /\ rv.displayed = rv.text)

\* a text of more than 100 characters displayed in full
C31_Witness ==
    /\ rv.pc = "revealing"
    /\ Len(rv.text) > 100
    /\ rv.displayed = rv.text

EntryIds == {rv.entries[i].id : i \in DOMAIN rv.entries}

\* C32: once a new reveal has started, no timer of an earlier reveal is
\* pending, the displayed text is a prefix of the newest reveal's text, only
\* the newest reveal's text is ever appended to the transcript, and the text
\* on display changes only by a reveal being started: a superseded text
\* never comes back and is never appended.
C32_SupersededNotQueued ==
    /\ [](/\ rv.chains \subseteq {rv.started}
          /\ rv.pc = "revealing" =>
                (rv.messageId = rv.started /\ IsPrefix(rv.displayed, rv.text))
          /\ EntryIds \cap rv.superseded = {})
    /\ [][/\ (rv'.entries # rv.entries /\ rv'.entries # <<>>) =>
                rv'.entries = Append(rv.entries, [id |-> rv.started, text |-> rv.text])
          /\ (rv'.pc = "revealing" /\ rv'.messageId # rv.messageId) =>
                rv'.started = rv.started + 1]_vars

\* the second reveal, started while the first was in progress, has completed
C32_Witness ==
    /\ 1 \in rv.superseded
    /\ 2 \in EntryIds
    /\ rv.pc = "done"

\* C33: the run of animateText that finds the reveal at the end of its text
\* appends one entry holding the full text and clears the live state; no
\* other run appends anything, so a reveal has at most one entry however
\* many runs follow.
C33_OneEntryOnCompletion ==
    /\ [](\A i, j \in DOMAIN rv.entries :
            rv.entries[i].id = rv.entries[j].id => i = j)
    /\ [][/\ (rv.pc = "revealing" /\ rv'.pc = "done") =>
                /\ rv.currentIndex = Len(rv.text)
                /\ rv.displayed = rv.text
                /\ rv'.entries = Append(rv.entries, [id |-> rv.messageId,
                                                     text |-> rv.text])
                /\ rv'.messageId = 0
                /\ rv'.displayed = <<>>
          /\ (rv.pc # "revealing" \/ rv'.pc # "done") =>
                rv'.entries \in {rv.entries, <<>>}]_vars

\* a run of animateText after the reveal has completed
C33_Witness ==
    /\ rv.pc = "done"
    /\ rv.noops > 0
    /\ Len(rv.entries) = 1
    /\ rv.entries[1].id = rv.started

\* C36: a reveal has at most one entry in the transcript, and a reveal
\* superseded by a newer one or cleared before its end has none.
C36_DroppedRevealAddsNothing ==
    /\ \A i, j \in DOMAIN rv.entries : rv.entries[i].id = rv.entries[j].id => i = j
    /\ EntryIds \cap (rv.superseded \cup rv.cleared) = {}
    /\ Len(rv.entries) <= rv.started

\* one reveal superseded, one cleared, one completed, and timers still running
C36_Witness ==
    /\ rv.superseded # {}
    /\ rv.cleared # {}
    /\ rv.entries # <<>>
    /\ rv.noops > 0

\* every start has settled and every recorder event has been handled
Quiescent ==
    /\ pendingStarts = 0
    /\ \A r \in DOMAIN recs : ~recs[r].startEv /\ recs[r].stopEv \notin {"queued", "running"}

\* C34 (as claimed): after stopSession, also one invoked while startSession
\* was waiting for the stream, once every pending callback has run the
\* session is inactive, no unit records, no tick loop runs and every stream
\* is released.
C34_StopDuringStartEndsSession ==
    (~isRecording /\ Quiescent) =>
        /\ ~sessionActive
        /\ Recording = {}
        /\ Running = {}
        /\ \A s \in DOMAIN streams : ~streams[s]

\* the effect of the finally block of onstop
FinallyRan ==
    IF sessionActive
    THEN /\ Len(recs') = Len(recs) + 1
         /\ recs'[Len(recs')].state = "recording"
         /\ recs'[Len(recs')].stream = streamRef
         /\ mediaRecorderRef' = Len(recs')
         /\ ev' = "onstop:restarted"
    ELSE /\ Len(recs') = Len(recs)
         /\ Recording' = Recording
         /\ mediaRecorderRef' = NoRec
         /\ ev' = "onstop:ended"

C37_FirstCalibrationTickStaysSilent ==
    [][\A l \in DOMAIN loops :
        (/\ lastRms' # None
         /\ meterRaf' = l
         /\ now = loops[l].startTs
         /\ lastRms' > 0
         /\ now' - loops[l].startTs < CALIBRATION_MS) =>
            /\ noiseFloor' = lastRms'
            /\ ~isSpeaking'
            /\ ev' # "tick:speech"]_vars

\* the first tick of a session, inside the window, has read 0.01, five times
\* the default threshold, and the state is still Silent
C37_Witness ==
    /\ lastRms = 100000
    /\ lastRms > Threshold(None)
    /\ ev = "tick:quiet"
    /\ meterRaf # 0
    /\ now - loops[meterRaf].startTs < CALIBRATION_MS
    /\ noiseFloor = lastRms
    /\ ~isSpeaking

\* C39: a pipeline call whose result carries no response text (no text
\* field, the empty string, or only whitespace) starts no reveal and adds
\* nothing to the results or the transcript, and neither the run nor the
\* call ends as failed.
C39_NoTextStartsNothing ==
    /\ [][\A i \in DOMAIN calls :
            (/\ calls[i] = "invoked"
             /\ calls'[i] # "invoked"
             /\ run.pc = "done"
             /\ run.result \in {"notext", "empty", "whitespace"}) =>
                /\ live' = live
                /\ audioResults' = audioResults
                /\ transcript' = transcript
                /\ calls'[i] = "returned"
                /\ ev' = "call:empty"]_vars
    /\ [][(run.pc = "infer" /\ run'.last \in {"noresponse", "empty", "whitespace"}) =>
            (run'.pc = "done" /\ run'.result # "error")]_vars

\* a call has returned a response of whitespace only
C39_Witness ==
    /\ ev = "call:empty"
    /\ run.pc = "done"
    /\ run.last = "whitespace"
    /\ \E i \in DOMAIN calls : calls[i] = "returned"
    /\ audioResults = <<>>
    /\ live = NoReveal
    /\ transcript = <<>>

====
